---- MODULE Spec2Model ----
(***************************************************************************)
(* A model of the numeric core of fft-explorer: the spectral transform     *)
(* `fft` (with its direct fallback `dft`) and the component extractor      *)
(* `getFrequencyComponents` of src/services/fft.ts.                        *)
(*                                                                         *)
(* Numbers.  A JavaScript number is modelled exactly, as an element of     *)
(* the field Q(sqrt 2, sqrt 3): the record [a, b, c, d, e] denotes         *)
(*        (a + b*sqrt(2) + c*sqrt(3) + d*sqrt(6)) / e      (e > 0),        *)
(* kept in lowest terms, and e = 0 denotes NaN.  Every sine and cosine of  *)
(* a multiple of 2*pi/24 lies in this field, so the transform of a         *)
(* sequence whose length divides 24 is computed without rounding.          *)
(* Floating-point rounding itself is not modelled.                         *)
(***************************************************************************)
EXTENDS Integers, Sequences, FiniteSets, TLC

\* Largest magnitude of an input sample.
MaxSample == 1

\* Largest length of a spectrum handed to getFrequencyComponents directly.
MaxSpectrumLen == 6

---------------------------------------------------------------------------
(* Exact arithmetic                                                        *)

Abs(x) == IF x < 0 THEN 0 - x ELSE x

RECURSIVE GCD(_, _)
GCD(x, y) == IF y = 0 THEN x ELSE GCD(y, x % y)

\* The number (a + b*sqrt2 + c*sqrt3 + d*sqrt6)/e in lowest terms; e > 0.
Norm(a, b, c, d, e) ==
  LET g == GCD(GCD(GCD(Abs(a), Abs(b)), GCD(Abs(c), Abs(d))), e)
  IN  [a |-> a \div g, b |-> b \div g, c |-> c \div g, d |-> d \div g, e |-> e \div g]

FromInt(i) == [a |-> i, b |-> 0, c |-> 0, d |-> 0, e |-> 1]

Zero == FromInt(0)

\* The JavaScript value NaN.
NaN == [a |-> 0, b |-> 0, c |-> 0, d |-> 0, e |-> 0]

IsNaN(x) == x.e = 0

\* The JavaScript value undefined: a hole of an array, an index out of range.
Undefined == [undefined |-> TRUE]

\* x + y
Add(x, y) ==
  IF IsNaN(x) \/ IsNaN(y) THEN NaN
  ELSE LET g  == GCD(x.e, y.e)
           mx == y.e \div g
           my == x.e \div g
       IN  Norm(x.a * mx + y.a * my, x.b * mx + y.b * my,
                x.c * mx + y.c * my, x.d * mx + y.d * my, x.e * mx)

\* -x
Neg(x) == IF IsNaN(x) THEN NaN ELSE [x EXCEPT !.a = 0 - x.a, !.b = 0 - x.b, !.c = 0 - x.c, !.d = 0 - x.d]

\* x - y
Sub(x, y) == Add(x, Neg(y))

\* x * y
Mul(x, y) ==
  IF IsNaN(x) \/ IsNaN(y) THEN NaN
  ELSE Norm(x.a * y.a + 2 * x.b * y.b + 3 * x.c * y.c + 6 * x.d * y.d,
            x.a * y.b + x.b * y.a + 3 * (x.c * y.d + x.d * y.c),
            x.a * y.c + x.c * y.a + 2 * (x.b * y.d + x.d * y.b),
            x.a * y.d + x.d * y.a + x.b * y.c + x.c * y.b,
            x.e * y.e)

\* x / i for an integer i; x / 0 is not finite and is modelled as NaN.
DivInt(x, i) ==
  IF IsNaN(x) \/ i = 0 THEN NaN
  ELSE IF i > 0 THEN Norm(x.a, x.b, x.c, x.d, x.e * i)
  ELSE Norm(0 - x.a, 0 - x.b, 0 - x.c, 0 - x.d, x.e * (0 - i))

\* cos(j * 15 degrees) for j in 0..6.
CosQ(j) ==
  CASE j = 0 -> FromInt(1)
    [] j = 1 -> [a |-> 0, b |-> 1, c |-> 0, d |-> 1, e |-> 4]
    [] j = 2 -> [a |-> 0, b |-> 0, c |-> 1, d |-> 0, e |-> 2]
    [] j = 3 -> [a |-> 0, b |-> 1, c |-> 0, d |-> 0, e |-> 2]
    [] j = 4 -> [a |-> 1, b |-> 0, c |-> 0, d |-> 0, e |-> 2]
    [] j = 5 -> [a |-> 0, b |-> 0 - 1, c |-> 0, d |-> 1, e |-> 4]
    [] j = 6 -> Zero

\* cos(2*pi*j/24) for j in 0..23.
Cos24(j) ==
  LET m == IF j > 12 THEN 24 - j ELSE j
  IN  IF m <= 6 THEN CosQ(m) ELSE Neg(CosQ(12 - m))

\* Math.cos((2 * Math.PI * num) / den), for den a divisor of 24.
Cos(num, den) == Cos24(((num * 24) \div den) % 24)

\* Math.sin((2 * Math.PI * num) / den), for den a divisor of 24.
Sin(num, den) == Cos24((((num * 24) \div den) + 18) % 24)

\* The values JavaScript's `||` and `!` treat as false, among numbers and undefined.
Falsy(v) == v = Undefined \/ v = NaN \/ v = Zero

\* arr[i] of a JavaScript array (0-based); undefined outside the array.
At(arr, i) == IF i + 1 \in DOMAIN arr THEN arr[i + 1] ELSE Undefined

---------------------------------------------------------------------------
(* The spectral transform                                                  *)

VARIABLES
  call,        \* which exported function the caller invokes
  input,       \* fft's argument at the outermost call
  stack,       \* the activations of fft, the outermost first
  ret,         \* the value returned by the activation that returned last
  pc,          \* "ready": not yet called, "running", "returned"
  fftData,     \* getFrequencyComponents' first argument
  n,           \* getFrequencyComponents' second argument
  components   \* the value getFrequencyComponents returned

coreVars == <<call, input, stack, ret, pc, fftData, n, components>>

\* The state of App and of SignalInput, and what React keeps for their hooks.
VARIABLES
  numPoints,       \* App: useState(128)
  signal,          \* App: the signal state, an array [ref, data]; ref is its identity
  inputMode,       \* App: useState(InputMode.EQUATION)
  equation,        \* SignalInput: the text of the formula
  rawNumbers,      \* SignalInput: the text of the number list
  fftMemo,         \* useMemo of fftResult: the dependency `signal` and the result
  componentsMemo,  \* useMemo of components: the dependencies and the result
  committed,       \* the effects' dependencies at the last commit
  pending,         \* the effects of the last commit that have not run yet
  stage,           \* "render", "effects", "idle", or "crashed": a render threw
  rendered,        \* what the last render used: signal, fftResult, components
  lastEvent,       \* the last user event, and the calls of fft and of
                   \* getFrequencyComponents made since
  events           \* the number of user events so far

appVars ==
  <<numPoints, signal, inputMode, equation, rawNumbers, fftMemo, componentsMemo,
    committed, pending, stage, rendered, lastEvent, events>>

\* The props of the 3D scene and the lines it draws.
VARIABLES
  props,           \* SceneContent: signal and components
  linesMemo        \* useMemo of componentLines: the lines drawn, in drawing order

sceneVars == <<props, linesMemo>>

vars == <<coreVars, appVars, sceneVars>>

ZeroComplex == [re |-> Zero, im |-> Zero]

\* a & b on non-negative integers
RECURSIVE BitAnd(_, _)
BitAnd(x, y) ==
  IF x = 0 \/ y = 0 THEN 0
  ELSE (x % 2) * (y % 2) + 2 * BitAnd(x \div 2, y \div 2)

\* A fallback test that never sends an input to dft.
NeverFallback(len) == FALSE

\* A test of n being odd in the place of the test of n being a power of two.
NotPowerOfTwoOdd(len) == len % 2 # 0

\* The fallback test of fft: (n & (n - 1)) !== 0, for len >= 1.
NotPowerOfTwo(len) == BitAnd(len, len - 1) # 0

\* An inner loop that starts at t = 1 and so leaves out input[0].
RECURSIVE DftReFromOne(_, _, _)
DftReFromOne(in, k, upto) ==
  IF upto <= 1 THEN Zero
  ELSE Add(DftReFromOne(in, k, upto - 1), Mul(At(in, upto - 1), Cos(k * (upto - 1), Len(in))))

\* The accumulator `re` of dft's inner loop after the terms t = 0 .. upto-1.
RECURSIVE DftRe(_, _, _)
DftRe(in, k, upto) ==
  IF upto = 0 THEN Zero
  ELSE Add(DftRe(in, k, upto - 1), Mul(At(in, upto - 1), Cos(k * (upto - 1), Len(in))))

\* The accumulator `im` of dft's inner loop after the terms t = 0 .. upto-1.
RECURSIVE DftIm(_, _, _)
DftIm(in, k, upto) ==
  IF upto = 0 THEN Zero
  ELSE Sub(DftIm(in, k, upto - 1), Mul(At(in, upto - 1), Sin(k * (upto - 1), Len(in))))

\* dft(input): one bin pushed for each k = 0 .. n-1.
dft(in) ==
  [k1 \in 1..Len(in) |-> [re |-> DftRe(in, k1 - 1, Len(in)), im |-> DftIm(in, k1 - 1, Len(in))]]

\* The splitting loop of fft from index i on: input[i] is pushed to the array
\* `out` when i % 2 is `rest`, for i < n.
RECURSIVE SplitLoop(_, _, _, _)
SplitLoop(in, i, rest, out) ==
  IF ~(i < Len(in)) THEN out
  ELSE SplitLoop(in, i + 1, rest, IF i % 2 = rest THEN Append(out, At(in, i)) ELSE out)

\* evenInput of fft: what the loop pushes where i % 2 === 0.
EvenInput(in) == SplitLoop(in, 0, 0, <<>>)

\* oddInput of fft: what the loop pushes in the else branch.
OddInput(in) == SplitLoop(in, 0, 1, <<>>)

\* `v || { re: 0, im: 0 }`: an object is truthy, undefined is not.
OrZeroComplex(v) == IF v = Undefined THEN ZeroComplex ELSE v

\* A twiddle factor of the opposite rotation: the angle 2*pi*k/n.
TwiddlePositive(k, len) == [re |-> Cos(k, len), im |-> Sin(k, len)]

\* The twiddle factor w of the butterfly loop at index k.
Twiddle(k, len) == [re |-> Cos(0 - k, len), im |-> Sin(0 - k, len)]

\* oddK * w
OddW(oddK, w) ==
  [re |-> Sub(Mul(oddK.re, w.re), Mul(oddK.im, w.im)),
   im |-> Add(Mul(oddK.re, w.im), Mul(oddK.im, w.re))]

\* results[k] = evenK + oddW
Lo(evenK, oddW) == [re |-> Add(evenK.re, oddW.re), im |-> Add(evenK.im, oddW.im)]

\* An upper half whose imaginary part is that of the lower half.
HiImAdded(evenK, oddW) == [re |-> Sub(evenK.re, oddW.re), im |-> Add(evenK.im, oddW.im)]

\* results[k + n / 2] = evenK - oddW
Hi(evenK, oddW) == [re |-> Sub(evenK.re, oddW.re), im |-> Sub(evenK.im, oddW.im)]

\* The butterfly loop of fft from index k on; `results` is the array so far.
RECURSIVE ButterflyLoop(_, _, _, _, _)
ButterflyLoop(results, even, odd, len, k) ==
  IF ~(2 * k < len) THEN results
  ELSE LET oddK  == OrZeroComplex(At(odd, k))
           evenK == OrZeroComplex(At(even, k))
           oddW  == OddW(oddK, Twiddle(k, len))
       IN  ButterflyLoop([results EXCEPT ![k + 1] = Lo(evenK, oddW),
                                            ![k + (len \div 2) + 1] = Hi(evenK, oddW)],
                         even, odd, len, k + 1)

\* A butterfly loop that starts at k = 1.
ButterflyFromOne(even, odd, len) ==
  ButterflyLoop([j \in 1..len |-> Undefined], even, odd, len, 1)

\* `new Array(n)` followed by the butterfly loop: the array fft returns.
Butterfly(even, odd, len) ==
  ButterflyLoop([j \in 1..len |-> Undefined], even, odd, len, 0)

\* `input[0] || 0`
FirstOrZero(in) == IF Falsy(At(in, 0)) THEN Zero ELSE At(in, 0)

\* An activation of fft that has just been entered with argument `in`.
Frame(in) == [input |-> in, at |-> "entry", even |-> <<>>]

Top == stack[Len(stack)]

Pop == SubSeq(stack, 1, Len(stack) - 1)

\* A first test that also takes inputs of two samples for degenerate.
IsDegenerateTwo(len) == len <= 2

\* The first test of fft: `n <= 1`.
IsDegenerate(len) == len <= 1

\* fft(input) as a value: what the activations above compute, by recursion.
RECURSIVE fft(_)
fft(in) ==
  IF IsDegenerate(Len(in)) THEN <<[re |-> FirstOrZero(in), im |-> Zero]>>
  ELSE IF NotPowerOfTwo(Len(in)) THEN dft(in)
  ELSE Butterfly(fft(EvenInput(in)), fft(OddInput(in)), Len(in))

\* The value an activation hands back: to its caller, or to fft's caller.
Return(value) ==
  /\ ret' = value
  /\ stack' = Pop
  /\ pc' = IF Len(stack) = 1 THEN "returned" ELSE "running"

\* The caller invokes fft(input).
CallFft ==
  /\ call = "fft"
  /\ pc = "ready"
  /\ stack' = <<Frame(input)>>
  /\ pc' = "running"
  /\ UNCHANGED <<call, input, ret, fftData, n, components>>
  /\ UNCHANGED <<appVars, sceneVars>>

\* if (n <= 1) return [{ re: input[0] || 0, im: 0 }];
FftDegenerate ==
  /\ pc = "running"
  /\ Top.at = "entry"
  /\ IsDegenerate(Len(Top.input))
  /\ Return(<<[re |-> FirstOrZero(Top.input), im |-> Zero]>>)
  /\ UNCHANGED <<call, input, fftData, n, components>>
  /\ UNCHANGED <<appVars, sceneVars>>

\* if ((n & (n - 1)) !== 0) return dft(input);
FftFallback ==
  /\ pc = "running"
  /\ Top.at = "entry"
  /\ ~IsDegenerate(Len(Top.input))
  /\ NotPowerOfTwo(Len(Top.input))
  /\ Return(dft(Top.input))
  /\ UNCHANGED <<call, input, fftData, n, components>>
  /\ UNCHANGED <<appVars, sceneVars>>

\* The split into evenInput and oddInput, and the call fft(evenInput).
FftSplit ==
  /\ pc = "running"
  /\ Top.at = "entry"
  /\ ~IsDegenerate(Len(Top.input))
  /\ ~NotPowerOfTwo(Len(Top.input))
  /\ stack' = Append([stack EXCEPT ![Len(stack)].at = "even"], Frame(EvenInput(Top.input)))
  /\ UNCHANGED <<call, input, ret, pc, fftData, n, components>>
  /\ UNCHANGED <<appVars, sceneVars>>

\* const even = fft(evenInput) has returned: the call fft(oddInput).
FftRecurseOdd ==
  /\ pc = "running"
  /\ Top.at = "even"
  /\ stack' = Append([stack EXCEPT ![Len(stack)].at = "odd", ![Len(stack)].even = ret],
                     Frame(OddInput(Top.input)))
  /\ UNCHANGED <<call, input, ret, pc, fftData, n, components>>
  /\ UNCHANGED <<appVars, sceneVars>>

\* const odd = fft(oddInput) has returned: the butterfly loop and `return results`.
FftCombine ==
  /\ pc = "running"
  /\ Top.at = "odd"
  /\ Return(Butterfly(Top.even, ret, Len(Top.input)))
  /\ UNCHANGED <<call, input, fftData, n, components>>
  /\ UNCHANGED <<appVars, sceneVars>>

---------------------------------------------------------------------------
(* The component extractor                                                 *)

\* Whether v is a number of the model (and not a symbolic term).
IsNum(v) == "e" \in DOMAIN v

\* The largest r in lo..hi with r * r <= v.
RECURSIVE ISqrtIn(_, _, _)
ISqrtIn(v, lo, hi) ==
  IF lo >= hi THEN lo
  ELSE LET mid == (lo + hi + 1) \div 2
       IN  IF mid * mid <= v THEN ISqrtIn(v, mid, hi) ELSE ISqrtIn(v, lo, mid - 1)

\* The integer part of the square root of v >= 0.
ISqrt(v) == ISqrtIn(v, 0, IF v < 46340 THEN v ELSE 46340)

\* Math.sqrt(x): exact where x is the square of a rational, and otherwise the
\* term [sqrtOf |-> x], which denotes the positive irrational root of x.
Sqrt(x) ==
  IF IsNaN(x) THEN NaN
  ELSE IF x.b = 0 /\ x.c = 0 /\ x.d = 0 /\ x.a >= 0
          /\ ISqrt(x.a) * ISqrt(x.a) = x.a /\ ISqrt(x.e) * ISqrt(x.e) = x.e
       THEN Norm(ISqrt(x.a), 0, 0, 0, ISqrt(x.e))
       ELSE [sqrtOf |-> x]

\* (Math.sqrt(re * re + im * im) * 2) / actualLen; a term where the root is irrational.
Amplitude(bin, actualLen) ==
  LET root == Sqrt(Add(Mul(bin.re, bin.re), Mul(bin.im, bin.im)))
  IN  IF IsNum(root) THEN DivInt(Mul(root, FromInt(2)), actualLen)
      ELSE [sqrtOf |-> root.sqrtOf, times |-> 2, over |-> actualLen]

\* Math.atan2(im, re), kept as a term; atan2(0, 0) is 0.
Phase(bin) ==
  IF bin.im = Zero /\ bin.re = Zero THEN Zero ELSE [atan2 |-> <<bin.im, bin.re>>]

\* A sample that is the cosine alone, without the factor `amplitude`.
SignalSampleUnscaled(amplitude, k, i, len, phase) ==
  [amplitude |-> FromInt(1), turns |-> <<k * i, len>>, phase |-> phase]

\* amplitude * Math.cos((2 * Math.PI * k * i) / len + phase): 0 where the
\* amplitude is 0, and otherwise the term naming the factor and the angle.
SignalSample(amplitude, k, i, len, phase) ==
  IF amplitude = Zero THEN Zero
  ELSE IF amplitude = NaN THEN NaN
  ELSE [amplitude |-> amplitude, turns |-> <<k * i, len>>, phase |-> phase]

\* The length and the angle divisor of the synthesized signal.
SignalLength(actualLen, sampleCount) == actualLen

\* The record pushed for bin k.
Component(data, sampleCount, k) ==
  LET actualLen == Len(data)
      bin       == At(data, k)
      amplitude == Amplitude(bin, actualLen)
      phase     == Phase(bin)
      len       == SignalLength(actualLen, sampleCount)
  IN  [frequency |-> k,
       amplitude |-> amplitude,
       phase     |-> phase,
       signal    |-> [i1 \in 1..len |-> SignalSample(amplitude, k, i1 - 1, len, phase)]]

\* A loop bound that is the whole length of the spectrum.
HalfWhole(data) == Len(data)

\* Math.floor(actualLen / 2)
Half(data) == Len(data) \div 2

\* A test that also skips the bins of no energy.
SkipBinZero(bin) == bin = Undefined \/ bin = ZeroComplex

\* `if (!bin) continue;`
SkipBin(bin) == bin = Undefined

\* The loop `for (let k = 1; k < half; k++)` from index k on; acc is `components`.
RECURSIVE ComponentsLoop(_, _, _, _)
ComponentsLoop(data, sampleCount, k, acc) ==
  IF ~(k < Half(data)) THEN acc
  ELSE IF SkipBin(At(data, k)) THEN ComponentsLoop(data, sampleCount, k + 1, acc)
  ELSE ComponentsLoop(data, sampleCount, k + 1, Append(acc, Component(data, sampleCount, k)))

\* `if (!fftData || fftData.length === 0) return [];`
EarlyReturn(data, sampleCount) == Len(data) = 0

getFrequencyComponents(data, sampleCount) ==
  IF EarlyReturn(data, sampleCount) THEN <<>>
  ELSE ComponentsLoop(data, sampleCount, 1, <<>>)

\* The caller invokes getFrequencyComponents(fftData, n).
CallGetFrequencyComponents ==
  /\ call = "getFrequencyComponents"
  /\ pc = "ready"
  /\ components' = getFrequencyComponents(fftData, n)
  /\ pc' = "returned"
  /\ UNCHANGED <<call, input, stack, ret, fftData, n>>
  /\ UNCHANGED <<appVars, sceneVars>>

---------------------------------------------------------------------------
(* The App and SignalInput                                                 *)

\* The model's resolutions are the App's 32, 64 and 128 divided by PointScale,
\* so that every angle of the transform is a multiple of 15 degrees.
PointScale == 16

\* const POINT_OPTIONS = [32, 64, 128];
POINT_OPTIONS == {32 \div PointScale, 64 \div PointScale, 128 \div PointScale}

\* useState(128), and initialSize = 128
InitialSize == 128 \div PointScale

\* The number of user events in a run.
MaxEvents == 3

\* enum InputMode
InputModes == {"DRAW", "EQUATION", "NUMBERS"}

\* The formula SignalInput starts with, and the one of the initial signal.
DefaultEquation == "Math.sin(2 * Math.PI * 3 * x) + 0.5 * Math.sin(2 * Math.PI * 10 * x)"

\* The formula of the button Square Wave.
SquareWave == "x < 0.5 ? 1 : -1"

\* A formula whose value is NaN at every x.
NotANumber == "0 / 0"

\* A formula that is no JavaScript expression.
Unfinished == "x +"

\* The formulas typed or chosen.
Equations == {DefaultEquation, SquareWave, NotANumber, Unfinished}

\* Whether new Function('x', `return ${equation}`) throws.
Throws(eq) == eq = Unfinished

\* fn(x) at x = i / len.
Evaluate(eq, i, len) ==
  CASE eq = DefaultEquation -> Add(Sin(3 * i, len), DivInt(Sin(10 * i, len), 2))
    [] eq = SquareWave      -> IF 2 * i < len THEN FromInt(1) ELSE FromInt(0 - 1)
    [] eq = NotANumber      -> NaN

\* newSignal of applyEquation: isNaN(val) ? 0 : val at each of len points.
EquationSignal(eq, len) ==
  [i1 \in 1..len |->
     LET val == Evaluate(eq, i1 - 1, len) IN IF IsNaN(val) THEN Zero ELSE val]

\* The texts typed into the number list.
RawTexts == {"", "abc", "1", "1, -1"}

\* rawNumbers.split(/[\s,]+/).map(Number): Number('') is 0, Number('abc') is NaN.
SplitNumbers(raw) ==
  CASE raw = ""      -> <<Zero>>
    [] raw = "abc"   -> <<NaN>>
    [] raw = "1"     -> <<FromInt(1)>>
    [] raw = "1, -1" -> <<FromInt(1), FromInt(0 - 1)>>

KeepNumber(v) == ~IsNaN(v)

\* nums of applyNumbers: .filter(n => !isNaN(n))
Nums(raw) == SelectSeq(SplitNumbers(raw), KeepNumber)

\* final of applyNumbers: nums[Math.floor((i / numPoints) * nums.length)] || 0
NumbersSignal(nums, len) ==
  [i1 \in 1..len |->
     LET v == At(nums, ((i1 - 1) * Len(nums)) \div len) IN IF Falsy(v) THEN Zero ELSE v]

\* new Array(len).fill(0)
Zeros(len) == [i1 \in 1..len |-> Zero]

\* v ?? d
Nullish(v, d) == IF v = Undefined THEN d ELSE v

\* An updater that hands back the array it was given.
ResampleKeep(prev, len) == prev

\* The updater of App's effect: prev resampled to len points by linear
\* interpolation; samplePos is p / q.
Resample(prev, len) ==
  IF Len(prev) = 0 THEN Zeros(len)
  ELSE IF Len(prev) = len THEN prev
  ELSE [i1 \in 1..len |->
          LET p         == (i1 - 1) * (Len(prev) - 1)
              q         == len - 1
              indexLow  == p \div q
              indexHigh == IF p % q = 0 THEN indexLow ELSE indexLow + 1
              weight    == Norm(p % q, 0, 0, 0, q)
              valLow    == Nullish(At(prev, indexLow), Zero)
              valHigh   == Nullish(At(prev, indexHigh), Nullish(At(prev, indexLow), Zero))
          IN  Add(Mul(valLow, Sub(FromInt(1), weight)), Mul(valHigh, weight))]

\* const brushSize = 2;
BrushSize == 2

\* The values a stroke writes: val = (0.5 - yRatio) * 2 at the top and the bottom.
DrawValues == {FromInt(1), FromInt(0 - 1)}

\* The indices the brush at `index` writes to.
Brushed(index, len) ==
  {t \in (index - BrushSize)..(index + BrushSize) : t >= 0 /\ t < len}

\* The updater of updateSignalAtPoint: a copy of prev with val under the brush.
DrawOn(prev, index, val, len) ==
  LET touched == Brushed(index, len)
      reach   == IF touched = {} THEN 0
                 ELSE 1 + CHOOSE t \in touched : \A u \in touched : u <= t
      newLen  == IF reach > Len(prev) THEN reach ELSE Len(prev)
  IN  [j1 \in 1..newLen |-> IF j1 - 1 \in touched THEN val ELSE At(prev, j1 - 1)]

\* Dependencies compared by the length of the array.
SameLength(a, b) ==
  IF a = Undefined \/ b = Undefined THEN a = b ELSE Len(a.data) = Len(b.data)

\* Object.is on two arrays (or undefined): the same object.
SameObject(a, b) ==
  IF a = Undefined \/ b = Undefined THEN a = b ELSE a.ref = b.ref

RefsOf(x) == IF x = Undefined THEN {} ELSE {x.ref}

\* A new array of samples: its identity is one no array in use has.
NewArray(data) ==
  LET live == RefsOf(signal)
              \cup (IF fftMemo = Undefined THEN {} ELSE RefsOf(fftMemo.deps))
              \cup (IF rendered = Undefined THEN {} ELSE RefsOf(rendered.signal))
  IN  [ref |-> CHOOSE r \in 0..3 : r \notin live, data |-> data]

\* A new array of bins, likewise.
NewResult(data) ==
  LET live == (IF fftMemo = Undefined THEN {} ELSE {fftMemo.result.ref})
              \cup (IF componentsMemo = Undefined THEN {} ELSE {componentsMemo.deps.fftResult})
  IN  [ref |-> CHOOSE r \in 0..2 : r \notin live, data |-> data]

\* `!signal || signal.length < 2`
TooShort(sig) == sig = Undefined \/ Len(sig.data) < 2

\* The callback of fftResult's useMemo (fft does not throw).
FftResultOf(sig) == IF TooShort(sig) THEN <<>> ELSE fft(sig.data)

\* The callback of components' useMemo.
ComponentsOf(fftResult, len) ==
  IF Len(fftResult) = 0 THEN <<>> ELSE getFrequencyComponents(fftResult, len)

\* A memo that is kept while the signal has the length it had.
FftMemoStaleByLength == fftMemo = Undefined \/ ~SameLength(fftMemo.deps, signal)

\* useMemo(..., [signal]): the callback runs again when `signal` is another object.
FftMemoStale == fftMemo = Undefined \/ ~SameObject(fftMemo.deps, signal)

UseMemoFft ==
  IF FftMemoStale THEN [deps |-> signal, result |-> NewResult(FftResultOf(signal))]
  ELSE fftMemo

\* useMemo(..., [fftResult, signal.length]), given fftResult's memo of this render.
ComponentsMemoStale(fm) ==
  \/ componentsMemo = Undefined
  \/ componentsMemo.deps.fftResult # fm.result.ref
  \/ componentsMemo.deps.length # Len(signal.data)

UseMemoComponents(fm) ==
  IF ComponentsMemoStale(fm)
  THEN [deps  |-> [fftResult |-> fm.result.ref, length |-> Len(signal.data)],
        value |-> ComponentsOf(fm.result.data, Len(signal.data))]
  ELSE componentsMemo

\* The values the dependency arrays of the two effects are built from.
EffectDeps ==
  [numPoints |-> numPoints, inputMode |-> inputMode,
   equation |-> equation, rawNumbers |-> rawNumbers]

\* The effects a commit schedules: App's on [numPoints]; SignalInput's on
\* [numPoints, currentMode, applyEquation, applyNumbers], whose callbacks are
\* new when equation, rawNumbers or numPoints is; all of them at the mount.
Scheduled ==
  (IF committed = Undefined \/ committed.numPoints # numPoints THEN {"App"} ELSE {})
  \cup (IF committed # EffectDeps THEN {"SignalInput"} ELSE {})

\* The calls of this render added to those made since the last user event.
Called(fm) ==
  [lastEvent EXCEPT
     !.fft = IF FftMemoStale /\ ~TooShort(signal) THEN Append(@, signal.data) ELSE @,
     !.extract = IF signal # Undefined /\ ComponentsMemoStale(fm) /\ Len(fm.result.data) # 0
                 THEN Append(@, <<fm.result.data, Len(signal.data)>>) ELSE @]

\* One render of App: both memos, then the commit. Reading signal.length of a
\* missing signal throws, and the render is lost.
Render ==
  /\ stage = "render"
  /\ LET fm == UseMemoFft
     IN  /\ fftMemo' = fm
         /\ lastEvent' = Called(fm)
         /\ IF signal = Undefined
            THEN /\ stage' = "crashed"
                 /\ UNCHANGED <<componentsMemo, committed, pending, rendered>>
            ELSE LET cm == UseMemoComponents(fm)
                 IN  /\ componentsMemo' = cm
                     /\ rendered' = [signal |-> signal, fftResult |-> fm.result.data,
                                     components |-> cm.value]
                     /\ committed' = EffectDeps
                     /\ pending' = Scheduled
                     /\ stage' = IF Scheduled = {} THEN "idle" ELSE "effects"
  /\ UNCHANGED <<numPoints, signal, inputMode, equation, rawNumbers, events>>
  /\ UNCHANGED <<coreVars, sceneVars>>

\* applyEquation: the signal state after it.
ApplyEquation ==
  IF Throws(equation) THEN signal ELSE NewArray(EquationSignal(equation, numPoints))

\* applyNumbers: the signal state after it.
ApplyNumbers ==
  IF Len(Nums(rawNumbers)) = 0 THEN signal
  ELSE NewArray(NumbersSignal(Nums(rawNumbers), numPoints))

\* setSignal(prev => ...) of App's effect: the signal state after it.
Resampled ==
  LET next == Resample(signal.data, numPoints)
  IN  IF Len(signal.data) = numPoints THEN signal ELSE NewArray(next)

\* Where React goes once `left` effects remain and the signal state is sig:
\* another render when the state is another object than the one rendered.
AfterEffects(left, sig) ==
  IF left # {} THEN "effects"
  ELSE IF SameObject(sig, rendered.signal) THEN "idle" ELSE "render"

\* SignalInput's effect; a child's effects run before its parent's.
SignalInputEffect ==
  /\ stage = "effects"
  /\ "SignalInput" \in pending
  /\ signal' = CASE inputMode = "EQUATION" -> ApplyEquation
                 [] inputMode = "NUMBERS"  -> ApplyNumbers
                 [] inputMode = "DRAW"     -> signal
  /\ pending' = pending \ {"SignalInput"}
  /\ stage' = AfterEffects(pending', signal')
  /\ UNCHANGED <<numPoints, inputMode, equation, rawNumbers, fftMemo, componentsMemo,
                 committed, rendered, lastEvent, events>>
  /\ UNCHANGED <<coreVars, sceneVars>>

\* App's effect on [numPoints].
AppEffect ==
  /\ stage = "effects"
  /\ pending = {"App"}
  /\ signal' = Resampled
  /\ pending' = {}
  /\ stage' = AfterEffects(pending', signal')
  /\ UNCHANGED <<numPoints, inputMode, equation, rawNumbers, fftMemo, componentsMemo,
                 committed, rendered, lastEvent, events>>
  /\ UNCHANGED <<coreVars, sceneVars>>

\* A user event of the given kind is handled: the App is at rest before it.
Event(kind) ==
  /\ stage = "idle"
  /\ events < MaxEvents
  /\ events' = events + 1
  /\ lastEvent' = [kind |-> kind, fft |-> <<>>, extract |-> <<>>]
  /\ UNCHANGED <<fftMemo, componentsMemo, committed, pending, rendered>>
  /\ UNCHANGED <<coreVars, sceneVars>>

\* onClick={() => setNumPoints(opt)}; setting the value it has changes nothing.
SetNumPoints ==
  /\ Event("resolution")
  /\ \E opt \in POINT_OPTIONS \ {numPoints} : numPoints' = opt
  /\ stage' = "render"
  /\ UNCHANGED <<signal, inputMode, equation, rawNumbers>>

\* onModeChange(mode)
SetInputMode ==
  /\ Event("mode")
  /\ \E mode \in InputModes \ {inputMode} : inputMode' = mode
  /\ stage' = "render"
  /\ UNCHANGED <<numPoints, signal, equation, rawNumbers>>

\* handleMouseDown on the canvas, which DRAW mode shows.
Draw ==
  /\ Event("draw")
  /\ inputMode = "DRAW"
  /\ \E index \in 0..(numPoints - 1), val \in DrawValues :
       signal' = NewArray(DrawOn(signal.data, index, val, numPoints))
  /\ stage' = "render"
  /\ UNCHANGED <<numPoints, inputMode, equation, rawNumbers>>

\* The button Clear: onSignalUpdate(new Array(numPoints).fill(0))
Clear ==
  /\ Event("clear")
  /\ inputMode = "DRAW"
  /\ signal' = NewArray(Zeros(numPoints))
  /\ stage' = "render"
  /\ UNCHANGED <<numPoints, inputMode, equation, rawNumbers>>

\* setEquation(...) of the textarea and of the four buttons.
SetEquation ==
  /\ Event("equation")
  /\ inputMode = "EQUATION"
  /\ \E eq \in Equations \ {equation} : equation' = eq
  /\ stage' = "render"
  /\ UNCHANGED <<numPoints, signal, inputMode, rawNumbers>>

\* The button Generate Signal: applyEquation.
GenerateSignal ==
  /\ Event("generate")
  /\ inputMode = "EQUATION"
  /\ signal' = ApplyEquation
  /\ stage' = IF SameObject(signal', signal) THEN "idle" ELSE "render"
  /\ UNCHANGED <<numPoints, inputMode, equation, rawNumbers>>

\* setRawNumbers(e.target.value)
SetRawNumbers ==
  /\ Event("numbers")
  /\ inputMode = "NUMBERS"
  /\ \E raw \in RawTexts \ {rawNumbers} : rawNumbers' = raw
  /\ stage' = "render"
  /\ UNCHANGED <<numPoints, signal, inputMode, equation>>

\* The button Load Values: applyNumbers.
LoadValues ==
  /\ Event("load")
  /\ inputMode = "NUMBERS"
  /\ signal' = ApplyNumbers
  /\ stage' = IF SameObject(signal', signal) THEN "idle" ELSE "render"
  /\ UNCHANGED <<numPoints, inputMode, equation, rawNumbers>>

\* The signal useState starts with.
InitialSignal == [i1 \in 1..InitialSize |-> Evaluate(DefaultEquation, i1 - 1, InitialSize)]

\* The hooks of App and SignalInput as constructed, before the first render.
InitHooks ==
  /\ numPoints = InitialSize
  /\ inputMode = "EQUATION"
  /\ equation = DefaultEquation
  /\ rawNumbers = ""
  /\ fftMemo = Undefined
  /\ componentsMemo = Undefined
  /\ committed = Undefined
  /\ pending = {}
  /\ stage = "render"
  /\ rendered = Undefined
  /\ lastEvent = [kind |-> "mount", fft |-> <<>>, extract |-> <<>>]
  /\ events = 0

\* App and SignalInput as constructed.
InitApp ==
  /\ signal = [ref |-> 0, data |-> InitialSignal]
  /\ InitHooks

\* No scene is shown.
NoScene ==
  /\ props = [signal |-> <<>>, components |-> <<>>]
  /\ linesMemo = Undefined

\* Neither exported function is called from outside the App.
NoCall ==
  /\ call = "none"
  /\ input = <<>>
  /\ stack = <<>>
  /\ ret = <<>>
  /\ pc = "ready"
  /\ fftData = <<>>
  /\ n = 0
  /\ components = <<>>

NextApp ==
  \/ Render
  \/ SignalInputEffect
  \/ AppEffect
  \/ SetNumPoints
  \/ SetInputMode
  \/ Draw
  \/ Clear
  \/ SetEquation
  \/ GenerateSignal
  \/ SetRawNumbers
  \/ LoadValues

InitAppMounted ==
  /\ InitApp
  /\ NoCall
  /\ NoScene

\* The App from its mount on, under user events.
SpecApp == InitAppMounted /\ [][NextApp]_vars

---------------------------------------------------------------------------
(* The 3D scene                                                            *)

\* .slice(0, 15)
MaxLines == 15

\* The threshold of the filter: 0.005.
Threshold == DivInt(FromInt(5), 1000)

\* x > y, for two rational numbers.
Greater(x, y) == x.a * y.e > y.a * x.e

\* An array handed to sort that is left in the order it has.
Unsorted(arr) == arr

\* `c` put into an array sorted by (a, b) => b.amplitude - a.amplitude: before
\* the first element of smaller amplitude, so after those that compare equal.
RECURSIVE InsertByAmplitude(_, _)
InsertByAmplitude(sorted, c) ==
  IF sorted = <<>> THEN <<c>>
  ELSE IF Greater(c.amplitude, Head(sorted).amplitude) THEN <<c>> \o sorted
  ELSE <<Head(sorted)>> \o InsertByAmplitude(Tail(sorted), c)

\* .sort((a, b) => b.amplitude - a.amplitude); the sort of an array is stable.
RECURSIVE SortByAmplitude(_)
SortByAmplitude(arr) ==
  IF arr = <<>> THEN <<>>
  ELSE InsertByAmplitude(SortByAmplitude(SubSeq(arr, 1, Len(arr) - 1)), arr[Len(arr)])

RECURSIVE InsertByFrequency(_, _)
InsertByFrequency(sorted, c) ==
  IF sorted = <<>> THEN <<c>>
  ELSE IF c.frequency < Head(sorted).frequency THEN <<c>> \o sorted
  ELSE <<Head(sorted)>> \o InsertByFrequency(Tail(sorted), c)

\* .sort((a, b) => a.frequency - b.frequency)
RECURSIVE SortByFrequency(_)
SortByFrequency(arr) ==
  IF arr = <<>> THEN <<>>
  ELSE InsertByFrequency(SortByFrequency(SubSeq(arr, 1, Len(arr) - 1)), arr[Len(arr)])

\* c => c.amplitude > 0.005
IsSignificant(c) == Greater(c.amplitude, Threshold)

\* .slice(0, 15)
Slice(arr) == SubSeq(arr, 1, IF Len(arr) < MaxLines THEN Len(arr) ELSE MaxLines)

\* `significant`: sorted by amplitude, filtered, cut, sorted by frequency.
Significant(comps) ==
  SortByFrequency(Slice(SelectSeq(SortByAmplitude(comps), IsSignificant)))

\* What is kept of a line: its label's frequency and its amp.
LineOf(c) == [frequency |-> c.frequency, amp |-> c.amplitude]

\* The callback of componentLines' useMemo; n is signal.length || 1.
ComponentLines(p) ==
  LET len == IF Len(p.signal) = 0 THEN 1 ELSE Len(p.signal)
      significant == Significant(p.components)
  IN  IF Len(p.components) = 0 \/ len < 2 THEN <<>>
      ELSE [j \in 1..Len(significant) |-> LineOf(significant[j])]

\* The array `components` once the callback has run: sort works in place, on
\* the copy [...components], so the array received is as it was.
Received(comps) == comps

\* The first render of SceneContent.
RenderScene ==
  /\ linesMemo = Undefined
  /\ linesMemo' = [value |-> ComponentLines(props)]
  /\ props' = [props EXCEPT !.components = Received(@)]
  /\ UNCHANGED <<coreVars, appVars>>

\* The most components a list handed to the scene has.
MaxComponents == 24

\* The amplitudes of a list, in thousandths, lie within MaxLevel of their base.
MaxLevel == 6

\* The bases: lists with few, with some and with only significant components.
Bases == {0, 4, 6}

\* A component list as the extractor returns it: the frequencies 1..len in
\* order; the amplitude of frequency k is base + (k * step + shift) % (MaxLevel + 1)
\* thousandths. The signal of a component plays no part in the selection.
ComponentList(len, base, step, shift) ==
  [k \in 1..len |->
     [frequency |-> k,
      amplitude |-> DivInt(FromInt(base + ((k * step + shift) % (MaxLevel + 1))), 1000)]]

\* The scene is handed a component list and a signal of the length that goes
\* with it: 2 * len + 2 samples, or fewer than four when the list is empty.
InitScene ==
  /\ \E len \in 0..MaxComponents, base \in Bases, step \in 1..MaxLevel, shift \in 0..MaxLevel :
       \E size \in (IF len = 0 THEN 0..3 ELSE {2 * len + 2}) :
         props = [signal |-> Zeros(size), components |-> ComponentList(len, base, step, shift)]
  /\ linesMemo = Undefined
  /\ InitApp
  /\ NoCall

SpecScene == InitScene /\ [][RenderScene]_vars

---------------------------------------------------------------------------
(* The calls checked                                                       *)

\* The sample values of the inputs: the integers of magnitude at most MaxSample.
Samples == {FromInt(i) : i \in (0 - MaxSample)..MaxSample}

\* The lengths of the inputs: 0, 1, the powers of two 2, 4, 8 and the
\* lengths 3, 6 of the direct path.  Each divides 24.
Lengths == {0, 1, 2, 3, 4, 6, 8}

\* The inputs of fft; the longest draw their samples from 0, 1.
Inputs ==
  UNION {[1..len -> IF len <= 6 THEN Samples ELSE {Zero, FromInt(1)}] : len \in Lengths}

\* The entries of the spectra handed to getFrequencyComponents directly:
\* a hole, a zero-energy bin, a bin of modulus 5 and one of modulus sqrt 2.
Bins ==
  {Undefined, ZeroComplex, [re |-> FromInt(3), im |-> FromInt(4)],
   [re |-> FromInt(1), im |-> FromInt(0 - 1)]}

Spectra == UNION {[1..len -> Bins] : len \in 0..MaxSpectrumLen}

\* The sample counts tried with a spectrum: not positive, equal to its length, and different.
SampleCounts(data) == {0 - 1, 0, Len(data), Len(data) + 2, 2 * Len(data)}

InitFft ==
  /\ call = "fft"
  /\ input \in Inputs
  /\ fftData = <<>>
  /\ n = 0

InitExtract ==
  /\ call = "getFrequencyComponents"
  /\ input = <<>>
  /\ fftData \in Spectra
  /\ n \in SampleCounts(fftData)

Init ==
  /\ InitFft \/ InitExtract
  /\ stack = <<>>
  /\ ret = <<>>
  /\ pc = "ready"
  /\ components = <<>>
  /\ InitApp
  /\ NoScene

Next ==
  \/ CallFft
  \/ FftDegenerate
  \/ FftFallback
  \/ FftSplit
  \/ FftRecurseOdd
  \/ FftCombine
  \/ CallGetFrequencyComponents

Spec == Init /\ [][Next]_vars

NextFft ==
  \/ CallFft
  \/ FftDegenerate
  \/ FftFallback
  \/ FftSplit
  \/ FftRecurseOdd
  \/ FftCombine

\* The transform alone, on short inputs whose samples may also be NaN.
NonFiniteInputs == UNION {[1..len -> Samples \cup {NaN}] : len \in 0..4}

InitNonFinite ==
  /\ call = "fft"
  /\ input \in NonFiniteInputs
  /\ fftData = <<>>
  /\ n = 0
  /\ stack = <<>>
  /\ ret = <<>>
  /\ pc = "ready"
  /\ components = <<>>
  /\ InitApp
  /\ NoScene

SpecNonFinite == InitNonFinite /\ [][NextFft]_vars

\* The caller hands the spectrum fft returned, and the length of fft's input,
\* to getFrequencyComponents.
ExtractSpectrum ==
  /\ call = "fft"
  /\ pc = "returned"
  /\ fftData' = ret
  /\ n' = Len(input)
  /\ components' = getFrequencyComponents(ret, Len(input))
  /\ pc' = "extracted"
  /\ UNCHANGED <<call, input, stack, ret>>
  /\ UNCHANGED <<appVars, sceneVars>>

NextPipeline ==
  \/ CallFft
  \/ FftDegenerate
  \/ FftFallback
  \/ FftSplit
  \/ FftRecurseOdd
  \/ FftCombine
  \/ ExtractSpectrum

InitPipeline ==
  /\ InitFft
  /\ stack = <<>>
  /\ ret = <<>>
  /\ pc = "ready"
  /\ components = <<>>
  /\ InitApp
  /\ NoScene

\* The two functions in sequence: fft, then getFrequencyComponents on its result.
SpecPipeline == InitPipeline /\ [][NextPipeline]_vars

\* The signal states a render is checked on: none, and every array of Inputs.
AnySignal == {Undefined} \cup {[ref |-> 0, data |-> in] : in \in Inputs}

\* App about to render, whatever its signal state holds.
InitRender ==
  /\ signal \in AnySignal
  /\ InitHooks
  /\ NoCall
  /\ NoScene

\* One render of App, lines 48-61, on any signal state.
SpecRender == InitRender /\ [][Render]_vars

---------------------------------------------------------------------------
(* Properties                                                              *)

\* fft(input) has returned to its caller; ret is the spectrum.
FftReturned == call = "fft" /\ pc = "returned"

\* getFrequencyComponents(fftData, n) has returned; components is the result.
ExtractReturned == call = "getFrequencyComponents" /\ pc = "returned"

\* v is a complex value with both parts numbers.
IsComplex(v) == DOMAIN v = {"re", "im"} /\ IsNum(v.re) /\ IsNum(v.im)

\* C1: for an input of length N >= 1, fft returns exactly N bins and every
\* index 0..N-1 holds a complex value: neither loop leaves a hole.
C1_LengthPreserved ==
  (FftReturned /\ Len(input) >= 1) =>
    /\ Len(ret) = Len(input)
    /\ \A k \in 0..(Len(input) - 1) : At(ret, k) # Undefined /\ IsComplex(At(ret, k))

\* A call of length 8, on the radix-2 path, returned 8 bins, the last not 0.
C1_Witness ==
  /\ FftReturned
  /\ Len(input) = 8
  /\ Len(ret) = 8
  /\ ret[8] # ZeroComplex

\* C2 (as claimed): fft([]) is [(0, 0)] and fft([x]) is [(x, 0)] for every
\* value x of a sample, NaN included.
C2_DegenerateAsClaimed ==
  FftReturned =>
    /\ Len(input) = 0 => ret = <<ZeroComplex>>
    /\ Len(input) = 1 => ret = <<[re |-> input[1], im |-> Zero]>>

\* C3: every record getFrequencyComponents returns has an integer frequency k
\* with 1 <= k < floor(M/2), M the length of the spectrum; never 0, never
\* floor(M/2) or more.
C3_FrequencyRange ==
  ExtractReturned =>
    \A i \in DOMAIN components :
      /\ components[i].frequency \in Int
      /\ 1 <= components[i].frequency
      /\ components[i].frequency < Len(fftData) \div 2

\* Records were returned for a spectrum that has a hole below its middle.
C3_Witness ==
  /\ ExtractReturned
  /\ Len(fftData) = 6
  /\ fftData[2] = Undefined
  /\ Len(components) = 1
  /\ components[1].frequency = 2

\* Every entry of the spectrum is present.
AllPresent(data) == \A i \in DOMAIN data : data[i] # Undefined

\* C4: for a spectrum of length M with every entry present there are exactly
\* max(0, floor(M/2) - 1) records, the i-th with frequency i (so one for each
\* k = 1 .. floor(M/2)-1, in increasing order), zero-energy bins included.
C4_OneRecordPerBin ==
  (ExtractReturned /\ AllPresent(fftData)) =>
    /\ Len(components) = IF Len(fftData) \div 2 >= 1 THEN Len(fftData) \div 2 - 1 ELSE 0
    /\ \A i \in DOMAIN components : components[i].frequency = i

\* Two records were returned, the first for a zero-energy bin.
C4_Witness ==
  /\ ExtractReturned
  /\ AllPresent(fftData)
  /\ Len(fftData) = 6
  /\ fftData[2] = ZeroComplex
  /\ Len(components) = 2
  /\ components[1].amplitude = Zero
  /\ components[2].amplitude # Zero

\* The angle divisor used for a sample of a signal, where the sample records it.
DivisorIs(sample, d) == "turns" \in DOMAIN sample => sample.turns[2] = d

\* C5 (as claimed): with a positive sampleCount, every record's signal has
\* length exactly sampleCount and its angles are divided by sampleCount, also
\* when sampleCount differs from the length of the spectrum.
C5_SignalLengthAsClaimed ==
  (ExtractReturned /\ n >= 1) =>
    \A i \in DOMAIN components :
      /\ Len(components[i].signal) = n
      /\ \A j \in DOMAIN components[i].signal : DivisorIs(components[i].signal[j], n)

\* C6 (as claimed): with sampleCount <= 0 the result is the empty sequence.
C6_NoComponentsAsClaimed ==
  (ExtractReturned /\ n <= 0) => components = <<>>

\* At every level the activation's argument is half its caller's, and only
\* an argument longer than 1 is split.
RecursionHalves ==
  \A i \in 2..Len(stack) :
    /\ Len(stack[i - 1].input) > 1
    /\ 2 * Len(stack[i].input) = Len(stack[i - 1].input)

\* Some step of the call in progress can be taken: the guard of one of the
\* actions holds (what each action then assigns is always defined).
CanStep ==
  \/ pc = "ready"
  \/ /\ pc = "running"
     /\ stack # <<>>
     /\ \/ Top.at = "entry" /\ IsDegenerate(Len(Top.input))
        \/ Top.at = "entry" /\ ~IsDegenerate(Len(Top.input)) /\ NotPowerOfTwo(Len(Top.input))
        \/ Top.at = "entry" /\ ~IsDegenerate(Len(Top.input)) /\ ~NotPowerOfTwo(Len(Top.input))
        \/ Top.at = "even"
        \/ Top.at = "odd"

\* The number of steps an activation entered with an argument of length len
\* takes until it returns.
RECURSIVE StepsOf(_)
StepsOf(len) ==
  IF len <= 1 \/ NotPowerOfTwo(len) THEN 1 ELSE 3 + 2 * StepsOf(len \div 2)

\* The steps the activations stack[1..upto] still have to take themselves
\* or through the calls they have yet to make.
RECURSIVE StepsLeftIn(_)
StepsLeftIn(upto) ==
  IF upto = 0 THEN 0
  ELSE StepsLeftIn(upto - 1) +
       CASE stack[upto].at = "entry" -> StepsOf(Len(stack[upto].input))
         [] stack[upto].at = "even"  -> 2 + StepsOf(Len(stack[upto].input) \div 2)
         [] stack[upto].at = "odd"   -> 1

\* The steps left until the call returns to its caller.
StepsLeft ==
  CASE pc = "ready"    -> 1 + (IF call = "fft" THEN StepsOf(Len(input)) ELSE 0)
    [] pc = "running"  -> StepsLeftIn(Len(stack))
    [] pc = "returned" -> 0

\* C7: fft is total.  A call that has not returned can always take a step,
\* every step brings the return nearer (so the call ends), what is returned
\* is a spectrum, and on the way the recursion halves the length at each
\* level and stops at length <= 1.
C7_Total ==
  /\ [](pc = "returned" \/ CanStep)
  /\ [][StepsLeft' < StepsLeft /\ StepsLeft' >= 0]_vars
  /\ [](FftReturned => (Len(ret) >= 1 /\ \A k \in DOMAIN ret : IsComplex(ret[k])))
  /\ []RecursionHalves

\* A call of length 8 is three levels deep, at an argument of length 1.
C7_Witness ==
  /\ call = "fft"
  /\ Len(stack) = 4
  /\ Len(stack[1].input) = 8
  /\ Len(Top.input) = 1
  /\ Top.at = "entry"

\* C8: on an input whose length is a power of two greater than 1, the
\* radix-2 path returns, bin by bin, what dft returns on the same input.
C8_AgreesWithDft ==
  (FftReturned /\ Len(input) > 1 /\ ~NotPowerOfTwo(Len(input))) => ret = dft(input)

\* The radix-2 path returned a spectrum of length 8 with an irrational bin.
C8_Witness ==
  /\ FftReturned
  /\ Len(input) = 8
  /\ ret[2].re.b # 0
  /\ ret = dft(input)

\* C9: for a real input of length N and 1 <= k < N, bins k and N-k of the
\* result are complex conjugates.
C9_Hermitian ==
  (FftReturned /\ Len(input) >= 1) =>
    \A k \in 1..(Len(input) - 1) :
      /\ At(ret, k).re = At(ret, Len(input) - k).re
      /\ At(ret, k).im = Neg(At(ret, Len(input) - k).im)

\* A spectrum with a bin off the real axis was returned on the radix-2 path.
C9_Witness ==
  /\ FftReturned
  /\ Len(input) = 4
  /\ ret[2].im # Zero
  /\ ret[2].im = Neg(ret[4].im)

\* input[0] + ... + input[upto-1]
RECURSIVE Sum(_, _)
Sum(in, upto) == IF upto = 0 THEN Zero ELSE Add(Sum(in, upto - 1), in[upto])

\* C10: for an input of length N >= 1, on either path, bin 0 of the result
\* is (sum of the samples, 0).
C10_DcBin ==
  (FftReturned /\ Len(input) >= 1) =>
    At(ret, 0) = [re |-> Sum(input, Len(input)), im |-> Zero]

\* The direct path returned a spectrum whose bin 0 is not 0.
C10_Witness ==
  /\ FftReturned
  /\ Len(input) = 6
  /\ ret[1] = [re |-> FromInt(2), im |-> Zero]

\* Every sample of the input is 0.
AllZero(in) == \A i \in DOMAIN in : in[i] = Zero

\* C11: for an all-zero input of length N > 0, fft returns N bins all equal
\* to (0, 0), and getFrequencyComponents on that spectrum returns only
\* records of amplitude 0 whose signal is 0 throughout.
C11_AllZero ==
  (call = "fft" /\ Len(input) > 0 /\ AllZero(input)) =>
    /\ pc \in {"returned", "extracted"} =>
         Len(ret) = Len(input) /\ \A k \in DOMAIN ret : ret[k] = ZeroComplex
    /\ pc = "extracted" =>
         \A i \in DOMAIN components :
           /\ components[i].amplitude = Zero
           /\ \A j \in DOMAIN components[i].signal : components[i].signal[j] = Zero

\* Three records were extracted from the spectrum of eight zeros.
C11_Witness ==
  /\ pc = "extracted"
  /\ Len(input) = 8
  /\ AllZero(input)
  /\ Len(components) = 3
  /\ Len(components[3].signal) = 8

\* len is 2^e for some e >= 0.
IsPowerOfTwo(len) == \E e \in 0..len : 2 ^ e = len

\* The samples of `in` at the (0-based) indices 2i + rest, for i < Len(in) / 2.
EveryOther(in, rest) == [i \in 1..(Len(in) \div 2) |-> in[2 * i - 1 + rest]]

\* C13: an activation of fft whose input has N samples recurses exactly when
\* N > 1 is a power of two, and returns dft(input) exactly when N > 1 is not;
\* the two recursive calls get even[i] = input[2i] and odd[i] = input[2i+1],
\* each of length N/2; and no activation below the outermost has an input
\* that takes the dft path.
C13_Paths ==
  /\ [][(pc = "running" /\ Top.at = "entry") =>
          LET in  == Top.input
              len == Len(in)
          IN  /\ (Len(stack') = Len(stack) + 1) <=> (len > 1 /\ IsPowerOfTwo(len))
              /\ (len > 1 /\ stack' = Pop) <=> (len > 1 /\ ~IsPowerOfTwo(len))
              /\ (len > 1 /\ stack' = Pop) => ret' = dft(in)
              /\ (Len(stack') = Len(stack) + 1) =>
                   /\ Top'.input = EveryOther(in, 0)
                   /\ 2 * Len(Top'.input) = len]_vars
  /\ [][(pc = "running" /\ Top.at = "even") =>
          /\ Len(stack') = Len(stack) + 1
          /\ Top'.input = EveryOther(Top.input, 1)
          /\ 2 * Len(Top'.input) = Len(Top.input)]_vars
  /\ [](pc = "running" =>
          \A d \in 2..Len(stack) :
            Len(stack[d].input) = 1 \/ IsPowerOfTwo(Len(stack[d].input)))

\* Two levels down in a call on eight samples: the activation for the odd
\* half of the odd half, entered with input[3] and input[7].
C13_Witness ==
  /\ pc = "running"
  /\ Len(input) = 8
  /\ Len(stack) = 3
  /\ stack[1].at = "odd"
  /\ stack[2].at = "odd"
  /\ Top.at = "entry"
  /\ Top.input = <<input[4], input[8]>>
  /\ input[4] # input[8]

\* C14: when an activation of fft is about to run its butterfly loop, even[k]
\* and odd[k] are defined for every k in [0, N/2), so neither
\* `|| { re: 0, im: 0 }` substitutes a zero.
C14_HalvesDefined ==
  (pc = "running" /\ Top.at = "odd") =>
    \A k \in 0..(Len(Top.input) - 1) :
      2 * k < Len(Top.input) =>
        /\ At(Top.even, k) # Undefined
        /\ At(ret, k) # Undefined
        /\ OrZeroComplex(At(Top.even, k)) = At(Top.even, k)
        /\ OrZeroComplex(At(ret, k)) = At(ret, k)

\* The outermost activation of a call on eight samples has both half-spectra,
\* of four bins each, and the butterfly loop is next.
C14_Witness ==
  /\ pc = "running"
  /\ Len(stack) = 1
  /\ Top.at = "odd"
  /\ Len(Top.input) = 8
  /\ Len(Top.even) = 4
  /\ Len(ret) = 4

\* C15: the spectrum and the component list of every render are those of the
\* signal of that render, components = getFrequencyComponents(fft(signal),
\* signal.length), and when the App is at rest the signal rendered is the one
\* last set.
C15_NoStaleResult ==
  /\ [](rendered # Undefined =>
          /\ rendered.fftResult = fft(rendered.signal.data)
          /\ rendered.components =
               getFrequencyComponents(fft(rendered.signal.data), Len(rendered.signal.data)))
  /\ [][(stage = "render" /\ stage' # "render") => rendered'.signal = signal]_vars
  /\ [](stage = "idle" => rendered.signal = signal)

\* At rest after a stroke that changed the signal while keeping its length:
\* the render that followed ran the transform once, on the signal drawn.
C15_Witness ==
  /\ stage = "idle"
  /\ lastEvent.kind = "draw"
  /\ rendered.signal = signal
  /\ fftMemo.deps = signal
  /\ lastEvent.fft = <<signal.data>>
  /\ Len(rendered.components) = 3
  /\ rendered.components[1].amplitude # Zero

C17_Resampled ==
  (stage = "idle" /\ lastEvent.kind = "resolution") =>
    /\ numPoints \in POINT_OPTIONS
    /\ Len(signal.data) = numPoints
    /\ lastEvent.fft # <<>>
    /\ lastEvent.fft[Len(lastEvent.fft)] = signal.data
    /\ rendered.signal = signal
    /\ rendered.fftResult = fft(signal.data)

\* At rest after a change of resolution in EQUATION mode with a formula that
\* throws: SignalInput's effect left the signal alone and App's resampled it.
C17_Witness ==
  /\ stage = "idle"
  /\ lastEvent.kind = "resolution"
  /\ inputMode = "EQUATION"
  /\ Throws(equation)
  /\ numPoints # InitialSize
  /\ Len(signal.data) = numPoints
  /\ signal.data # Zeros(numPoints)
  /\ lastEvent.fft = <<signal.data>>

\* The (0-based) places of the received list whose components are above the threshold.
Above == {i \in DOMAIN props.components : Greater(props.components[i].amplitude, Threshold)}

\* The places of the received list whose components are drawn.
Drawn ==
  {i \in DOMAIN props.components :
     \E j \in DOMAIN linesMemo.value :
       linesMemo.value[j] = [frequency |-> props.components[i].frequency,
                             amp |-> props.components[i].amplitude]}

\* C18: the scene draws at most 15 component lines, each of a component of
\* amplitude above 0.005; they are as many as there are such components, up
\* to 15, none left out is larger than one drawn, and they are drawn in
\* increasing order of frequency; the list received is left as it was.
C18_Selection ==
  /\ [](linesMemo # Undefined =>
          LET lines == linesMemo.value
          IN  /\ Len(lines) <= 15
              /\ \A j \in DOMAIN lines : Greater(lines[j].amp, DivInt(FromInt(5), 1000))
              /\ \A j \in DOMAIN lines : \A k \in DOMAIN lines :
                   j < k => lines[j].frequency < lines[k].frequency
              /\ Drawn \subseteq Above
              /\ Cardinality(Drawn) = Len(lines)
              /\ Len(lines) = IF Cardinality(Above) < 15 THEN Cardinality(Above) ELSE 15
              /\ \A i \in Above \ Drawn : \A d \in Drawn :
                   ~Greater(props.components[i].amplitude, props.components[d].amplitude))
  /\ [][props' = props]_vars

\* Fifteen lines are drawn of a list with more than fifteen components above
\* the threshold; the smallest frequency left out is below the largest drawn,
\* and a component left out is smaller than one drawn.
C18_Witness ==
  /\ linesMemo # Undefined
  /\ Len(linesMemo.value) = 15
  /\ Cardinality(Above) > 15
  /\ \E i \in Above \ Drawn : \E d \in Drawn :
       /\ i < d
       /\ Greater(props.components[d].amplitude, props.components[i].amplitude)
  /\ \E i \in DOMAIN props.components : i \notin Above

====
